---- MODULE Spec2Model ----
(***************************************************************************)
(* A model of one request run of the children's question-answering app     *)
(* (src/main.py): the keyword guardrail, the guardian branch, retrieval    *)
(* with allow-list filter and substring fallback, answer generation and    *)
(* the audio resolver.  Text is modelled by TLA+ strings; the library      *)
(* calls the script makes (fuzzy matching, similarity search, the remote   *)
(* model, the file system) are modelled by what they return.               *)
(***************************************************************************)
EXTENDS Integers, Sequences, FiniteSets, TLC

(***************************************************************************)
(* Text helpers: Python's str operations on ASCII text.                    *)
(***************************************************************************)
Max(a, b) == IF a >= b THEN a ELSE b

Char(s, i) == SubSeq(s, i, i)

UpperToLower ==
    [c \in {"A","B","C","D","E","F","G","H","I","J","K","L","M","N","O","P",
            "Q","R","S","T","U","V","W","X","Y","Z"} |->
        CASE c = "A" -> "a" [] c = "B" -> "b" [] c = "C" -> "c" [] c = "D" -> "d"
          [] c = "E" -> "e" [] c = "F" -> "f" [] c = "G" -> "g" [] c = "H" -> "h"
          [] c = "I" -> "i" [] c = "J" -> "j" [] c = "K" -> "k" [] c = "L" -> "l"
          [] c = "M" -> "m" [] c = "N" -> "n" [] c = "O" -> "o" [] c = "P" -> "p"
          [] c = "Q" -> "q" [] c = "R" -> "r" [] c = "S" -> "s" [] c = "T" -> "t"
          [] c = "U" -> "u" [] c = "V" -> "v" [] c = "W" -> "w" [] c = "X" -> "x"
          [] c = "Y" -> "y" [] c = "Z" -> "z"]

LowerChar(c) == IF c \in DOMAIN UpperToLower THEN UpperToLower[c] ELSE c

UpperChar(c) ==
    IF \E u \in DOMAIN UpperToLower : UpperToLower[u] = c
    THEN CHOOSE u \in DOMAIN UpperToLower : UpperToLower[u] = c
    ELSE c

\* str.lower()
RECURSIVE Lower(_)
Lower(s) == IF Len(s) = 0 THEN "" ELSE LowerChar(Char(s, 1)) \o Lower(Tail(s))

\* str.capitalize(): first character upper-cased, the rest lower-cased
Capitalize(s) ==
    IF Len(s) = 0 THEN "" ELSE UpperChar(Char(s, 1)) \o Lower(Tail(s))

Whitespace == {" ", "\n", "\t"}

\* str.strip()
RECURSIVE LStrip(_)
LStrip(s) ==
    IF Len(s) > 0 /\ Char(s, 1) \in Whitespace THEN LStrip(Tail(s)) ELSE s

RECURSIVE RStrip(_)
RStrip(s) ==
    IF Len(s) > 0 /\ Char(s, Len(s)) \in Whitespace
    THEN RStrip(SubSeq(s, 1, Len(s) - 1)) ELSE s

Strip(s) == RStrip(LStrip(s))

\* Python's `sub in s`
Contains(s, sub) ==
    \E i \in 1..(Len(s) - Len(sub) + 1) : SubSeq(s, i, i + Len(sub) - 1) = sub

(***************************************************************************)
(* Guardrail keywords (src/main.py, SAFE_KEYWORDS), in list order.         *)
(***************************************************************************)
SAFE_KEYWORDS == <<
    "baby", "birth", "child", "sleep", "dream", "ear", "eye", "brain",
    "body", "heart", "health", "water", "sky", "sun", "moon", "earth",
    "wind", "plant", "animal", "bird", "fish", "weather", "day", "night",
    "stars", "bones", "food", "teeth", "color", "light", "dark", "eyesight",
    "smell", "touch", "hear", "sound", "laugh", "cry", "family", "mom",
    "dad", "school", "friend", "kindness", "honesty", "gratitude", "manners",
    "duas", "Islam", "Allah", "Prophet", "Quran", "hygiene", "clean",
    "cleanliness", "wash", "bath", "soap", "toothbrush", "teeth", "toilet",
    "wudu", "ablution", "tidy", "germs", "sanitary", "sneeze", "cough",
    "handwashing", "grooming", "shower", "respect", "obedience", "truth",
    "mercy", "patience", "forgiveness", "humility", "helping", "sharing",
    "eyes", "ears", "nose", "mouth", "hand", "skin", "hair", "feelings",
    "sad", "happy", "angry", "fear", "love", "mountains", "sea", "river",
    "ocean", "rain", "tree", "flower", "fruit", "seed", "cat", "dog",
    "camel", "horse", "bee", "ant", "butterfly", "drink", "milk", "eat",
    "clothes", "shoes", "home", "book", "toy", "travel", "parent", "brother",
    "sister", "teacher", "neighbour", "guest", "grandma", "grandpa",
    "alphabet", "numbers", "shape", "time", "why", "how", "what", "wazu",
    "duwa", "namaz", "janamaz", "guardian", "phone", "emergency", "contact"
>>

NoneVal == "<None>"

normalize_query(question) == Lower(Strip(question))

(***************************************************************************)
(* rapidfuzz: fuzz.ratio is the normalised Indel similarity                *)
(* 200 * LCS / (len1 + len2); fuzz.partial_ratio is the best ratio of the  *)
(* shorter string against the windows of the longer one.  A score is kept  *)
(* as the fraction <<numerator, denominator>>.                             *)
(***************************************************************************)
RECURSIVE LcsRow(_, _, _, _)
LcsRow(prev, ch, b, acc) ==
    IF Len(acc) = Len(b) + 1 THEN acc
    ELSE LET j == Len(acc)
             v == IF ch = Char(b, j) THEN prev[j] + 1
                  ELSE Max(prev[j + 1], acc[j])
         IN  LcsRow(prev, ch, b, Append(acc, v))

RECURSIVE LcsRows(_, _, _, _)
LcsRows(a, b, i, prev) ==
    IF i > Len(a) THEN prev[Len(b) + 1]
    ELSE LcsRows(a, b, i + 1, LcsRow(prev, Char(a, i), b, <<0>>))

LCS(a, b) == LcsRows(a, b, 1, [j \in 1..(Len(b) + 1) |-> 0])

ScoreGE(x, y) == x[1] * y[2] >= y[1] * x[2]

MaxScore(S) == CHOOSE x \in S : \A y \in S : ScoreGE(x, y)

ratio(s1, s2) ==
    IF Len(s1) + Len(s2) = 0 THEN <<100, 1>>
    ELSE <<200 * LCS(s1, s2), Len(s1) + Len(s2)>>

\* the windows of s2 that a needle of length n is aligned with
Windows(n, s2) ==
    {SubSeq(s2, 1, i) : i \in 1..(n - 1)}
      \cup {SubSeq(s2, i, i + n - 1) : i \in 1..(Len(s2) - n)}
      \cup {SubSeq(s2, i, Len(s2)) : i \in (Len(s2) - n + 1)..Len(s2)}

partial_ratio_impl(s1, s2) ==
    MaxScore({<<0, 1>>} \cup {ratio(s1, w) : w \in Windows(Len(s1), s2)})

partial_ratio(s1, s2) ==
    IF Len(s1) = 0 /\ Len(s2) = 0 THEN <<100, 1>>
    ELSE IF Len(s1) = 0 \/ Len(s2) = 0 THEN <<0, 1>>
    ELSE IF Len(s1) < Len(s2) THEN partial_ratio_impl(s1, s2)
    ELSE IF Len(s2) < Len(s1) THEN partial_ratio_impl(s2, s1)
    ELSE MaxScore({partial_ratio_impl(s1, s2), partial_ratio_impl(s2, s1)})

ScoreCutoff == 80

\* process.extractOne: the first choice with the best score
extractOne(question, choices) ==
    LET scored == {<<i, partial_ratio(question, choices[i])>> : i \in 1..Len(choices)}
        top    == MaxScore({p[2] : p \in scored})
        firsts == {p[1] : p \in {r \in scored : ScoreGE(r[2], top)}}
        best   == CHOOSE i \in firsts : \A j \in firsts : i <= j
    IN  <<choices[best], top>>

\* a mutant: the threshold taken as score > 80
fuzzy_match_keywords_Strict(question) ==
    LET match == extractOne(question, SAFE_KEYWORDS)
    IN  IF ~ScoreGE(<<ScoreCutoff, 1>>, match[2]) THEN match[1] ELSE NoneVal

fuzzy_match_keywords(question) ==
    LET match == extractOne(question, SAFE_KEYWORDS)
    IN  IF ScoreGE(match[2], <<ScoreCutoff, 1>>) THEN match[1] ELSE NoneVal

(***************************************************************************)
(* Python dict helpers.  A JSON object read from the knowledge base is an  *)
(* ordered sequence of <<key, value>> pairs with distinct keys; a JSON     *)
(* object read from the guardian file is a function on its keys.           *)
(***************************************************************************)
ItemKeys(item) == {item[i][1] : i \in 1..Len(item)}

\* item.get(k, default)
ItemGet(item, k, default) ==
    IF k \in ItemKeys(item)
    THEN item[CHOOSE i \in 1..Len(item) : item[i][1] = k][2]
    ELSE default

\* mapping.get(k, default)
DictGet(d, k, default) == IF k \in DOMAIN d THEN d[k] ELSE default

EmptyDict == <<>>

\* sep.join(parts)
RECURSIVE Join(_, _)
Join(parts, sep) ==
    IF Len(parts) = 0 THEN ""
    ELSE IF Len(parts) = 1 THEN parts[1]
    ELSE parts[1] \o sep \o Join(Tail(parts), sep)

\* the subsequence of s whose elements satisfy Keep, in order
RECURSIVE SelectIdx(_, _, _)
SelectIdx(s, keep, i) ==
    IF i > Len(s) THEN <<>>
    ELSE (IF i \in keep THEN <<s[i]>> ELSE <<>>) \o SelectIdx(s, keep, i + 1)

Range(s) == {s[i] : i \in 1..Len(s)}

(***************************************************************************)
(* Knowledge loader                                                        *)
(***************************************************************************)
ContentSkippedKeys == {"category", "audio"}

content_parts(item) ==
    LET kept == {i \in 1..Len(item) : item[i][1] \notin ContentSkippedKeys}
    IN  [j \in 1..Len(SelectIdx(item, kept, 1)) |->
            LET kv == SelectIdx(item, kept, 1)[j]
            IN  Capitalize(kv[1]) \o ": " \o kv[2]]

\* a mutant: only the category is kept out of the content
Document_AudioInContent(item) ==
    LET kept == SelectIdx(item, {i \in 1..Len(item) : item[i][1] # "category"}, 1)
    IN  [page_content |->
            Join([j \in 1..Len(kept) |->
                    Capitalize(kept[j][1]) \o ": " \o kept[j][2]], "\n"),
         metadata |-> [category    |-> ItemGet(item, "category", "unknown"),
                       audio       |-> ItemGet(item, "audio", ""),
                       arabic      |-> ItemGet(item, "arabic", ""),
                       usage       |-> ItemGet(item, "usage", ""),
                       translation |-> ItemGet(item, "translation", "")]]

Document(item) ==
    [page_content |-> Join(content_parts(item), "\n"),
     metadata |-> [category    |-> ItemGet(item, "category", "unknown"),
                   audio       |-> ItemGet(item, "audio", ""),
                   arabic      |-> ItemGet(item, "arabic", ""),
                   usage       |-> ItemGet(item, "usage", ""),
                   translation |-> ItemGet(item, "translation", "")]]

load_json_documents(raw_data) ==
    [i \in 1..Len(raw_data) |-> Document(raw_data[i])]

(***************************************************************************)
(* Retrieval helpers                                                       *)
(***************************************************************************)
\* any(kw in doc.page_content.lower() for kw in SAFE_KEYWORDS)
TopicMatch(doc) ==
    LET text == Lower(doc.page_content)
    IN  \E n \in 1..Len(SAFE_KEYWORDS) : Contains(text, SAFE_KEYWORDS[n])

\* a mutant: the content is not lower-cased before the comparison
fallback_keyword_search_CaseSensitive(question, full_docs) ==
    SelectIdx(full_docs,
              {i \in 1..Len(full_docs) :
                  Contains(full_docs[i].page_content, Lower(question))}, 1)

\* a mutant: the fallback returns the whole corpus
fallback_keyword_search_All(question, full_docs) == full_docs

fallback_keyword_search(question, full_docs) ==
    SelectIdx(full_docs,
              {i \in 1..Len(full_docs) :
                  Contains(Lower(full_docs[i].page_content), Lower(question))}, 1)

(***************************************************************************)
(* Guardian info                                                           *)
(***************************************************************************)
GuardianTriggers ==
    <<"mom", "dad", "guardian", "emergency", "phone", "contact", "father",
      "mother", "parent">>

\* the seven values the guardian block displays
guardian_fields(info) ==
    LET ec == DictGet(info, "emergency_contact", EmptyDict)
    IN  [guardian_name |-> DictGet(info, "guardian_name", "N/A"),
         relationship  |-> DictGet(info, "relationship", "N/A"),
         phone         |-> DictGet(info, "phone", "N/A"),
         ec_name         |-> DictGet(ec, "name", "N/A"),
         ec_relationship |-> DictGet(ec, "relationship", "N/A"),
         ec_phone        |-> DictGet(ec, "phone", "N/A"),
         address       |-> DictGet(info, "address", "N/A")]

guardian_block(f) ==
    "\n**Guardian Info:**\n\n- **Primary Guardian:** " \o f.guardian_name
      \o " (" \o f.relationship \o ")\n- **Phone:** " \o f.phone
      \o "\n\n**Emergency Contact:**\n\n- **Name:** " \o f.ec_name
      \o " (" \o f.ec_relationship \o ")\n- **Phone:** " \o f.ec_phone
      \o "\n\n**Address:** " \o f.address \o "\n"

get_guardian_response(question, info) ==
    IF \E n \in 1..Len(GuardianTriggers) : Contains(question, GuardianTriggers[n])
    THEN guardian_block(guardian_fields(info))
    ELSE ""

(***************************************************************************)
(* Personality prefix and prompt                                           *)
(***************************************************************************)
load_personality(personality) ==
    "You are a " \o DictGet(personality, "tone", "")
      \o " Islamic AI friend for children. Your teaching style: "
      \o DictGet(personality, "teaching_style", "")
      \o ". Follow these rules:\n"
      \o Join(DictGet(personality, "response_rules", <<>>), "\n") \o "\n\n"

final_prompt(question, docs, prompt_prefix) ==
    "\n--- FINAL PROMPT TO OPENAI ---\n" \o prompt_prefix
      \o "Only use the context below to answer the question. If the answer is not in the context, say 'I don't know'.\n\nContext:\n"
      \o Join([i \in 1..Len(docs) |-> docs[i].page_content], "\n\n")
      \o "\n\nQuestion: " \o question \o "\nAnswer:"

(***************************************************************************)
(* Audio resolver helpers                                                  *)
(***************************************************************************)
Truthy(s) == s # NoneVal /\ s # ""

\* index of the first occurrence of the character ch in s, 0 if none
IndexOf(s, ch) ==
    IF \E i \in 1..Len(s) : Char(s, i) = ch
    THEN CHOOSE i \in 1..Len(s) :
            Char(s, i) = ch /\ \A j \in 1..(i - 1) : Char(s, j) # ch
    ELSE 0

\* s.split(ch)
RECURSIVE Split(_, _)
Split(s, ch) ==
    LET i == IndexOf(s, ch)
    IN  IF i = 0 THEN <<s>>
        ELSE <<SubSeq(s, 1, i - 1)>> \o Split(SubSeq(s, i + 1, Len(s)), ch)

\* content_dict.get("audio", "") after re-parsing the "key: value" lines
RECURSIVE AudioOfLines(_, _, _)
AudioOfLines(lines, i, found) ==
    IF i > Len(lines) THEN found
    ELSE LET c == IndexOf(lines[i], ":")
             key == Lower(Strip(SubSeq(lines[i], 1, c - 1)))
             value == Strip(SubSeq(lines[i], c + 1, Len(lines[i])))
         IN  AudioOfLines(lines, i + 1,
                          IF c # 0 /\ key = "audio" THEN value ELSE found)

parsed_audio(page_content) == AudioOfLines(Split(page_content, "\n"), 1, "")

(***************************************************************************)
(* The environment of a run: the files on disk and the questions a user    *)
(* may type.                                                               *)
(***************************************************************************)
MaxDocs == 2

K == 2

R1 == <<<<"question", "What is water?">>, <<"category", "nature">>,
        <<"audio", "a.mp3">>, <<"arabic", "ma">>>>
R2 == <<<<"audio", "b.mp3">>, <<"topic", "Water">>, <<"arabic", "maa">>>>
R3 == <<<<"topic", "Allah">>, <<"usage", "daily">>, <<"translation", "God">>>>
R4 == <<<<"category", "manners">>, <<"topic", "Be kind">>, <<"audio", "a.mp3">>>>

RawItems == {R1, R2, R3, R4}

KnowledgeBases == UNION {[1..n -> RawItems] : n \in 1..MaxDocs}

AudioPaths == {"a.mp3", "b.mp3"}

GuardianPartial ==
    [guardian_name |-> "Amina", emergency_contact |-> [name |-> "Omar"]]

GuardianFiles ==
    {[exists |-> FALSE, content |-> EmptyDict],
     [exists |-> TRUE, content |-> GuardianPartial]}

PersonalityFile ==
    [tone |-> "kind", teaching_style |-> "simple",
     response_rules |-> <<"Be gentle.", "Be brief.">>]

\* no index has been persisted before the first run
PersistedIndexes == {[exists |-> FALSE, docs |-> <<>>]}

TriggerQuestions ==
    {GuardianTriggers[n] : n \in 1..Len(GuardianTriggers)}
      \cup {"My " \o GuardianTriggers[n] \o "x" : n \in 1..Len(GuardianTriggers)}

OtherQuestions ==
    {"", "   ", " What is Water ", "allah", "Kind", "wudu", "bitcoin"}

Questions == TriggerQuestions \cup OtherQuestions

LLMResponses == {"Water is a gift.", "I don't know"}

\* fuzzy_match_keywords over the questions of the model, evaluated once
KeywordMatches ==
    {<<q, fuzzy_match_keywords(q)>> : q \in {normalize_query(u) : u \in Questions}}

is_question_safe(question) ==
    (CHOOSE m \in KeywordMatches : m[1] = question)[2] # NoneVal

\* TopicMatch over the documents of the model, evaluated once
TopicMatches == {d \in {Document(r) : r \in RawItems} : TopicMatch(d)}

filter_documents_by_topic(docs) ==
    SelectIdx(docs, {i \in 1..Len(docs) : docs[i] \in TopicMatches}, 1)

(***************************************************************************)
(* State.  The first four variables are the files on disk; the rest are    *)
(* the script's variables during one run, the script's position, what it   *)
(* has rendered (ui), the outside calls it has made (calls) and the        *)
(* unhandled exception that ended it (fault).  `bound' holds the names the *)
(* run has assigned: reading a name outside it raises NameError.           *)
(***************************************************************************)
VARIABLES data_file, guardian_file, index_store, audio_files,
          pc, user_question, db, full_doc_list, custom_prompt_prefix,
          guardian_info, query, guardian_answer, retrieved_docs,
          filtered_docs, final_response, audio_path, arabic_text, doc_i,
          bound, ui, calls, llm_docs, llm_prompt, fault

env == <<data_file, guardian_file, index_store, audio_files>>

loaded == <<db, full_doc_list, custom_prompt_prefix, guardian_info>>

answer == <<guardian_answer, retrieved_docs, filtered_docs, final_response>>

audio == <<audio_path, arabic_text, doc_i>>

remote == <<llm_docs, llm_prompt>>

vars == <<data_file, guardian_file, index_store, audio_files,
          pc, user_question, db, full_doc_list, custom_prompt_prefix,
          guardian_info, query, guardian_answer, retrieved_docs,
          filtered_docs, final_response, audio_path, arabic_text, doc_i,
          bound, ui, calls, llm_docs, llm_prompt, fault>>

\* a fresh run of the script: nothing assigned yet
FreshRun ==
    /\ pc = "start"
    /\ user_question = ""
    /\ db = <<>>
    /\ full_doc_list = <<>>
    /\ custom_prompt_prefix = ""
    /\ guardian_info = EmptyDict
    /\ query = ""
    /\ guardian_answer = ""
    /\ retrieved_docs = <<>>
    /\ filtered_docs = <<>>
    /\ final_response = ""
    /\ audio_path = NoneVal
    /\ arabic_text = ""
    /\ doc_i = 0
    /\ bound = {}
    /\ ui = <<>>
    /\ calls = <<>>
    /\ llm_docs = <<>>
    /\ llm_prompt = ""
    /\ fault = "none"

Init ==
    /\ data_file \in KnowledgeBases
    /\ guardian_file \in GuardianFiles
    /\ index_store \in PersistedIndexes
    /\ audio_files \in SUBSET AudioPaths
    /\ FreshRun

Raise(exc) ==
    /\ fault' = exc
    /\ pc' = "crashed"

\* line 156: the text input
TextInput ==
    /\ pc = "start"
    /\ user_question' \in Questions
    /\ bound' = bound \cup {"user_question"}
    /\ pc' = "index"
    /\ UNCHANGED <<env, loaded, query, answer, audio, ui, calls, remote,
                   fault>>

\* lines 158-160, 125-131: no persisted index, so one is built and saved
CreateIndex ==
    /\ pc = "index"
    /\ ~index_store.exists
    /\ ui' = ui \o <<<<"info", "Creating AI knowledge base...">>,
                      <<"write", "Creating embeddings and FAISS index...">>>>
    /\ calls' = Append(calls, "embed_documents")
    /\ db' = load_json_documents(data_file)
    /\ index_store' = [exists |-> TRUE, docs |-> db']
    /\ bound' = bound \cup {"db"}
    /\ pc' = "load"
    /\ UNCHANGED <<data_file, guardian_file, audio_files, user_question,
                   full_doc_list, custom_prompt_prefix, guardian_info, query,
                   answer, audio, remote, fault>>

\* line 129: the embedding provider fails, uncaught
CreateIndexFails ==
    /\ pc = "index"
    /\ ~index_store.exists
    /\ ui' = ui \o <<<<"info", "Creating AI knowledge base...">>,
                      <<"write", "Creating embeddings and FAISS index...">>>>
    /\ calls' = Append(calls, "embed_documents")
    /\ Raise("RemoteError")
    /\ UNCHANGED <<env, user_question, loaded, query, answer, audio, bound,
                   remote>>

\* lines 161-162, 133-136: the persisted index is loaded
LoadIndex ==
    /\ pc = "index"
    /\ index_store.exists
    /\ ui' = Append(ui, <<"write", "Loading FAISS index from disk...">>)
    /\ db' = index_store.docs
    /\ bound' = bound \cup {"db"}
    /\ pc' = "load"
    /\ UNCHANGED <<env, user_question, full_doc_list, custom_prompt_prefix,
                   guardian_info, query, answer, audio, calls, remote,
                   fault>>

\* lines 99-103
load_guardian_info ==
    IF ~guardian_file.exists THEN EmptyDict ELSE guardian_file.content

\* lines 164-166
LoadData ==
    /\ pc = "load"
    /\ full_doc_list' = load_json_documents(data_file)
    /\ ui' = Append(ui, <<"write", "Loading personality rules...">>)
    /\ custom_prompt_prefix' = load_personality(PersonalityFile)
    /\ guardian_info' = load_guardian_info
    /\ bound' = bound \cup {"full_doc_list", "custom_prompt_prefix", "guardian_info"}
    /\ pc' = "question"
    /\ UNCHANGED <<env, user_question, db, query, answer, audio, calls,
                   remote, fault>>

\* line 168: nothing was typed
NoQuestion ==
    /\ pc = "question"
    /\ user_question = ""
    /\ pc' = "done"
    /\ UNCHANGED <<env, user_question, loaded, query, answer, audio, bound, ui,
                   calls, remote, fault>>

\* a mutant: the rejected question is warned about and processed all the same
GuardrailReject_FallsThrough ==
    /\ pc = "question"
    /\ user_question # ""
    /\ query' = normalize_query(user_question)
    /\ ~is_question_safe(query')
    /\ bound' = bound \cup {"query"}
    /\ ui' = Append(ui, <<"warning",
            "This question might be out of scope for this educational app.">>)
    /\ pc' = "guardian"
    /\ UNCHANGED <<env, user_question, loaded, answer, audio, calls, remote,
                   fault>>

\* lines 168-171: the guardrail rejects the question
GuardrailReject ==
    /\ pc = "question"
    /\ user_question # ""
    /\ query' = normalize_query(user_question)
    /\ ~is_question_safe(query')
    /\ bound' = bound \cup {"query"}
    /\ ui' = Append(ui, <<"warning",
            "This question might be out of scope for this educational app.">>)
    /\ pc' = "audio"
    /\ UNCHANGED <<env, user_question, loaded, answer, audio, calls, remote,
                   fault>>

\* lines 168-170, 172: the guardrail passes
GuardrailPass ==
    /\ pc = "question"
    /\ user_question # ""
    /\ query' = normalize_query(user_question)
    /\ is_question_safe(query')
    /\ bound' = bound \cup {"query"}
    /\ pc' = "guardian"
    /\ UNCHANGED <<env, user_question, loaded, answer, audio, ui, calls, remote,
                   fault>>

\* lines 173-177
GuardianBranch ==
    /\ pc = "guardian"
    /\ guardian_answer' = get_guardian_response(query, guardian_info)
    /\ bound' = bound \cup {"guardian_answer"}
    /\ IF guardian_answer' # ""
       THEN /\ ui' = ui \o <<<<"subheader", "Emergency Info">>,
                             <<"write", guardian_answer'>>>>
            /\ pc' = "audio"
       ELSE /\ ui' = ui
            /\ pc' = "retrieve"
    /\ UNCHANGED <<env, user_question, loaded, query, retrieved_docs,
                   filtered_docs, final_response, audio, calls, remote, fault>>

\* db.similarity_search(query, k): up to k documents of the index, in the
\* order of the index's own metric
SearchResults(index_docs, k) ==
    {[i \in 1..Len(pick) |-> index_docs[pick[i]]] :
        pick \in {p \in UNION {[1..n -> 1..Len(index_docs)] : n \in 0..k} :
                    \A a, b \in 1..Len(p) : a # b => p[a] # p[b]}}

\* lines 178-180
Retrieve ==
    /\ pc = "retrieve"
    /\ calls' = Append(calls, "similarity_search")
    /\ \E result \in SearchResults(db, K) :
          /\ retrieved_docs' = result
          /\ filtered_docs' = filter_documents_by_topic(result)
    /\ bound' = bound \cup {"retrieved_docs", "filtered_docs"}
    /\ pc' = IF filtered_docs' = <<>> THEN "fallback" ELSE "answer"
    /\ UNCHANGED <<env, user_question, loaded, query, guardian_answer,
                   final_response, audio, ui, remote, fault>>

\* line 178: embedding the query fails, uncaught
RetrieveFails ==
    /\ pc = "retrieve"
    /\ calls' = Append(calls, "similarity_search")
    /\ Raise("RemoteError")
    /\ UNCHANGED <<env, user_question, loaded, query, answer, audio, bound, ui,
                   remote>>

\* lines 180-182
Fallback ==
    /\ pc = "fallback"
    /\ ui' = Append(ui, <<"info",
        "No direct match found in vector search. Using fallback keyword match...">>)
    /\ calls' = Append(calls, "fallback_keyword_search")
    /\ filtered_docs' = fallback_keyword_search(query, full_doc_list)
    /\ pc' = "answer"
    /\ UNCHANGED <<env, user_question, loaded, query, guardian_answer,
                   retrieved_docs, final_response, audio, bound, remote, fault>>

\* lines 190-193
context_listing(docs) ==
    <<<<"subheader", "Retrieved Context">>>> \o
    [n \in 1..(2 * Len(docs)) |->
        IF n % 2 = 1
        THEN <<"markdown", DictGet(docs[(n + 1) \div 2].metadata, "category",
                                   "unknown")>>
        ELSE <<"code", docs[n \div 2].page_content>>]

\* lines 183-184, 187-193: nothing retrieved
AnswerUnknown ==
    /\ pc = "answer"
    /\ filtered_docs = <<>>
    /\ final_response' = "I don't know."
    /\ bound' = bound \cup {"final_response"}
    /\ ui' = ui \o <<<<"subheader", "Answer:">>, <<"write", final_response'>>>>
                \o context_listing(filtered_docs)
    /\ pc' = "audio"
    /\ UNCHANGED <<env, user_question, loaded, query, guardian_answer,
                   retrieved_docs, filtered_docs, audio, calls, remote, fault>>

\* a mutant: the remote model is called whatever was retrieved
Generate_NoEmptyCheck ==
    /\ pc = "answer"
    /\ llm_docs' = filtered_docs
    /\ llm_prompt' = final_prompt(query, filtered_docs, custom_prompt_prefix)
    /\ calls' = Append(calls, "llm.invoke")
    /\ final_response' \in LLMResponses
    /\ bound' = bound \cup {"final_response"}
    /\ ui' = ui \o <<<<"code", llm_prompt'>>, <<"subheader", "Answer:">>,
                     <<"write", final_response'>>>>
                \o context_listing(filtered_docs)
    /\ pc' = "audio"
    /\ UNCHANGED <<env, user_question, loaded, query, guardian_answer,
                   retrieved_docs, filtered_docs, audio, fault>>

\* lines 185-193, 72-77: the remote model answers
Generate ==
    /\ pc = "answer"
    /\ filtered_docs # <<>>
    /\ llm_docs' = filtered_docs
    /\ llm_prompt' = final_prompt(query, filtered_docs, custom_prompt_prefix)
    /\ calls' = Append(calls, "llm.invoke")
    /\ final_response' \in LLMResponses
    /\ bound' = bound \cup {"final_response"}
    /\ ui' = ui \o <<<<"code", llm_prompt'>>, <<"subheader", "Answer:">>,
                     <<"write", final_response'>>>>
                \o context_listing(filtered_docs)
    /\ pc' = "audio"
    /\ UNCHANGED <<env, user_question, loaded, query, guardian_answer,
                   retrieved_docs, filtered_docs, audio, fault>>

\* line 77: the remote model call fails, uncaught
GenerateFails ==
    /\ pc = "answer"
    /\ filtered_docs # <<>>
    /\ llm_docs' = filtered_docs
    /\ llm_prompt' = final_prompt(query, filtered_docs, custom_prompt_prefix)
    /\ calls' = Append(calls, "llm.invoke")
    /\ ui' = Append(ui, <<"code", llm_prompt'>>)
    /\ Raise("RemoteError")
    /\ UNCHANGED <<env, user_question, loaded, query, answer, audio, bound>>

\* line 194 reads a name the run never assigned
AudioGateFault ==
    /\ pc = "audio"
    /\ "filtered_docs" \notin bound
    /\ Raise("NameError")
    /\ UNCHANGED <<env, user_question, loaded, query, answer, audio, bound, ui,
                   calls, remote>>

\* lines 194-196
AudioGate ==
    /\ pc = "audio"
    /\ "filtered_docs" \in bound
    /\ IF filtered_docs = <<>>
       THEN /\ pc' = "done"
            /\ UNCHANGED <<audio, bound>>
       ELSE /\ audio_path' = NoneVal
            /\ bound' = bound \cup {"audio_path"}
            /\ doc_i' = 1
            /\ pc' = "audio_loop"
            /\ UNCHANGED arabic_text
    /\ UNCHANGED <<env, user_question, loaded, query, answer, ui, calls, remote,
                   fault>>

\* a mutant: the loop does not stop at the first existing file
AudioLoop_NoBreak ==
    /\ pc = "audio_loop"
    /\ audio_path' = filtered_docs[doc_i].metadata["audio"]
    /\ arabic_text' = filtered_docs[doc_i].metadata["arabic"]
    /\ bound' = bound \cup {"arabic_text"}
    /\ ui' = ui
    /\ doc_i' = doc_i + 1
    /\ pc' = IF doc_i' > Len(filtered_docs) THEN "audio_play" ELSE "audio_loop"
    /\ UNCHANGED <<env, user_question, loaded, query, answer, calls, remote,
                   fault>>

\* lines 197-214: one iteration of the loop over filtered_docs
AudioLoop ==
    /\ pc = "audio_loop"
    /\ LET doc == filtered_docs[doc_i]
       IN  /\ IF "audio" \in DOMAIN doc.metadata
              THEN /\ audio_path' = doc.metadata["audio"]
                   /\ arabic_text' = doc.metadata["arabic"]
                   /\ bound' = bound \cup {"arabic_text"}
                   /\ ui' = ui
              ELSE /\ audio_path' = parsed_audio(doc.page_content)
                   /\ ui' = Append(ui, <<"write", "Extracted audio path: "
                                                    \o audio_path'>>)
                   /\ UNCHANGED <<arabic_text, bound>>
           /\ IF Truthy(audio_path') /\ audio_path' \in audio_files
              THEN /\ pc' = "audio_play"
                   /\ doc_i' = doc_i
              ELSE /\ doc_i' = doc_i + 1
                   /\ pc' = IF doc_i' > Len(filtered_docs) THEN "audio_play"
                            ELSE "audio_loop"
    /\ UNCHANGED <<env, user_question, loaded, query, answer, calls, remote,
                   fault>>

\* lines 216-223
AudioPlay ==
    /\ pc = "audio_play"
    /\ IF Truthy(audio_path) /\ audio_path \in audio_files
       THEN IF "arabic_text" \in bound
            THEN ui' = ui \o <<<<"subheader", "Listen to the Dua">>,
                               <<"header", "Dua in arabic:">>,
                               <<"write", arabic_text>>,
                               <<"audio", audio_path>>>>
            ELSE ui' = ui \o <<<<"subheader", "Listen to the Dua">>,
                               <<"header", "Dua in arabic:">>,
                               <<"warning", "Audio unavailable or format issue.">>>>
       ELSE ui' = ui
    /\ pc' = "done"
    /\ UNCHANGED <<env, user_question, loaded, query, answer, audio, bound,
                   calls, remote, fault>>

\* the next submission reruns the script from the top in a fresh namespace
Rerun ==
    /\ pc \in {"done", "crashed"}
    /\ pc' = "start"
    /\ user_question' = ""
    /\ db' = <<>>
    /\ full_doc_list' = <<>>
    /\ custom_prompt_prefix' = ""
    /\ guardian_info' = EmptyDict
    /\ query' = ""
    /\ guardian_answer' = ""
    /\ retrieved_docs' = <<>>
    /\ filtered_docs' = <<>>
    /\ final_response' = ""
    /\ audio_path' = NoneVal
    /\ arabic_text' = ""
    /\ doc_i' = 0
    /\ bound' = {}
    /\ ui' = <<>>
    /\ calls' = <<>>
    /\ llm_docs' = <<>>
    /\ llm_prompt' = ""
    /\ fault' = "none"
    /\ UNCHANGED env

Next ==
    \/ TextInput
    \/ CreateIndex
    \/ CreateIndexFails
    \/ LoadIndex
    \/ LoadData
    \/ NoQuestion
    \/ GuardrailReject
    \/ GuardrailPass
    \/ GuardianBranch
    \/ Retrieve
    \/ RetrieveFails
    \/ Fallback
    \/ AnswerUnknown
    \/ Generate
    \/ GenerateFails
    \/ AudioGateFault
    \/ AudioGate
    \/ AudioLoop
    \/ AudioPlay
    \/ Rerun

Spec == Init /\ [][Next]_vars
(***************************************************************************)
(* Properties                                                              *)
(***************************************************************************)
Called(name) == \E i \in 1..Len(calls) : calls[i] = name

Shown(kind, text) == \E i \in 1..Len(ui) : ui[i] = <<kind, text>>

HasTrigger(q) ==
    \E n \in 1..Len(GuardianTriggers) : Contains(q, GuardianTriggers[n])

Rejected == "query" \in bound /\ ~is_question_safe(query)

OutOfScopeWarning ==
    <<"warning", "This question might be out of scope for this educational app.">>

\* C1: a run whose normalized question has no fuzzy match with score >= 80
\* stops at the guardrail: it never calls similarity_search, the fallback
\* substring search or the remote model.
C1_GuardrailStopsPipeline ==
    Rejected =>
        /\ ~Called("similarity_search")
        /\ ~Called("fallback_keyword_search")
        /\ ~Called("llm.invoke")
        /\ bound \cap {"guardian_answer", "retrieved_docs", "filtered_docs",
                       "final_response"} = {}

C1_Witness ==
    /\ Rejected
    /\ query = "bitcoin"
    /\ pc = "crashed"
    /\ \E i \in 1..Len(ui) : ui[i] = OutOfScopeWarning

\* C2: a run whose normalized question contains a guardian trigger word
\* passes the guardrail, shows the formatted guardian block and never calls
\* similarity_search or the remote model; the trigger check runs only after
\* the guardrail has passed.
C2_GuardianBypassesRetrieval ==
    /\ ("query" \in bound /\ HasTrigger(query)) =>
          /\ ~Called("similarity_search")
          /\ ~Called("llm.invoke")
          /\ pc \notin {"question", "guardian"} =>
                /\ "guardian_answer" \in bound
                /\ guardian_answer = guardian_block(guardian_fields(guardian_info))
                /\ Shown("write", guardian_answer)
    /\ "guardian_answer" \in bound => is_question_safe(query)

C2_Witness ==
    /\ query = "my fatherx"
    /\ pc = "audio"
    /\ guardian_file.exists
    /\ Shown("write", guardian_block(guardian_fields(guardian_file.content)))

\* C3: an out-of-scope question is a designed branch: the run shows the
\* warning and ends without an unhandled fault, the audio step included.
C3_OutOfScopeEndsWithoutFault ==
    Rejected =>
        /\ \E i \in 1..Len(ui) : ui[i] = OutOfScopeWarning
        /\ fault = "none"

\* C4: when the filtered vector results and the fallback substring search are
\* both empty the answer is exactly "I don't know." and the remote model is
\* not called; the remote model is only ever called with a non-empty
\* document list.
C4_EmptyRetrievalAnswersUnknown ==
    /\ ( /\ "retrieved_docs" \in bound
         /\ pc \in {"audio", "crashed"}
         /\ filter_documents_by_topic(retrieved_docs) = <<>>
         /\ fallback_keyword_search(query, full_doc_list) = <<>> ) =>
            /\ "final_response" \in bound
            /\ final_response = "I don't know."
            /\ Shown("write", "I don't know.")
            /\ ~Called("llm.invoke")
    /\ Called("llm.invoke") => llm_docs # <<>>

C4_Witness ==
    /\ pc = "done"
    /\ query = "wudu"
    /\ Called("fallback_keyword_search")
    /\ final_response = "I don't know."
    /\ ~Called("llm.invoke")

\* the documents of the loaded knowledge base whose lowercased content
\* contains the text
DocsContaining(text) ==
    {full_doc_list[i] : i \in {j \in 1..Len(full_doc_list) :
        Contains(Lower(full_doc_list[j].page_content), text)}}

WaterQueryFellBack ==
    /\ query = "what is water"
    /\ "retrieved_docs" \in bound
    /\ retrieved_docs = <<>>
    /\ pc = "answer"

\* C5 as stated: with a knowledge-base document whose content contains the
\* keyword "water", the question "what is water" against an index that
\* returns nothing falls back to the substring search and the fallback result
\* contains that document.
C5_FallbackFindsKeywordDocument ==
    WaterQueryFellBack =>
        /\ Called("fallback_keyword_search")
        /\ DocsContaining("water") \subseteq Range(filtered_docs)

\* C5 as amended: the fallback result contains every knowledge-base document
\* whose lowercased content contains the whole normalized question
\* "what is water".
C5_FallbackFindsWholeQuestionDocument ==
    WaterQueryFellBack =>
        /\ Called("fallback_keyword_search")
        /\ DocsContaining("what is water") \subseteq Range(filtered_docs)

C5_Witness ==
    /\ WaterQueryFellBack
    /\ Document(R1) \in Range(filtered_docs)
    /\ Document(R2) \in Range(full_doc_list)

Playable(doc) ==
    Truthy(doc.metadata.audio) /\ doc.metadata.audio \in audio_files

FirstPlayable(docs) ==
    IF \E i \in 1..Len(docs) : Playable(docs[i])
    THEN CHOOSE i \in 1..Len(docs) :
            Playable(docs[i]) /\ \A j \in 1..(i - 1) : ~Playable(docs[j])
    ELSE 0

AudioShown == {i \in 1..Len(ui) : ui[i][1] = "audio"}

\* C6: the path offered for playback is the metadata audio path of the first
\* filtered document, in list order, whose path exists on disk; earlier
\* documents with an empty or missing path are skipped; with no such document
\* no audio is offered; the Arabic caption is that same document's.
C6_AudioResolverFirstExisting ==
    /\ pc = "audio_loop" =>
          \A j \in 1..(doc_i - 1) : ~Playable(filtered_docs[j])
    /\ (pc = "done" /\ "filtered_docs" \in bound /\ filtered_docs # <<>>) =>
          LET f == FirstPlayable(filtered_docs)
          IN  IF f = 0 THEN AudioShown = {}
              ELSE \E i \in 2..Len(ui) :
                      /\ AudioShown = {i}
                      /\ ui[i] = <<"audio", filtered_docs[f].metadata.audio>>
                      /\ ui[i - 1] = <<"write", filtered_docs[f].metadata.arabic>>

C6_Witness ==
    /\ pc = "done"
    /\ Len(filtered_docs) = 2
    /\ FirstPlayable(filtered_docs) = 2
    /\ Truthy(filtered_docs[1].metadata.audio)
    /\ filtered_docs[1].metadata.arabic # filtered_docs[2].metadata.arabic
    /\ AudioShown # {}

NoGuardianFields ==
    [guardian_name |-> "N/A", relationship |-> "N/A", phone |-> "N/A",
     ec_name |-> "N/A", ec_relationship |-> "N/A", ec_phone |-> "N/A",
     address |-> "N/A"]

\* C7: with the guardian file missing load_guardian_info returns an empty
\* mapping, every displayed guardian field of a run that reaches the guardian
\* branch is "N/A", and the run completes without a fault.
C7_MissingGuardianFileNoFault ==
    (~guardian_file.exists /\ "guardian_answer" \in bound
        /\ guardian_answer # "") =>
        /\ DOMAIN guardian_info = {}
        /\ guardian_answer = guardian_block(NoGuardianFields)
        /\ Shown("write", guardian_block(NoGuardianFields))
        /\ fault = "none"

MetadataKeys == {"category", "audio", "arabic", "usage", "translation"}

ValueOr(item, k, default) ==
    IF \E i \in 1..Len(item) : item[i][1] = k
    THEN (CHOOSE kv \in Range(item) : kv[1] = k)[2]
    ELSE default

LineStartsWith(line, prefix) ==
    Len(line) >= Len(prefix) /\ SubSeq(line, 1, Len(prefix)) = prefix

\* C8: load_json_documents returns one document per source object in source
\* order; each metadata holds category, audio, arabic, usage and translation,
\* category defaulting to "unknown" and the others to ""; the category and
\* audio fields are no line of the content text.
C8_LoadedDocumentsShape ==
    pc = "question" =>
        /\ Len(full_doc_list) = Len(data_file)
        /\ \A i \in 1..Len(data_file) :
              LET item == data_file[i]
                  doc == full_doc_list[i]
                  lines == Split(doc.page_content, "\n")
              IN  /\ DOMAIN doc.metadata = MetadataKeys
                  /\ doc.metadata.category = ValueOr(item, "category", "unknown")
                  /\ \A k \in MetadataKeys \ {"category"} :
                        doc.metadata[k] = ValueOr(item, k, "")
                  /\ \A n \in 1..Len(lines) :
                        /\ ~LineStartsWith(lines[n], "Category: ")
                        /\ ~LineStartsWith(lines[n], "Audio: ")
                  /\ Len(lines) =
                        Cardinality({n \in 1..Len(item) :
                                        item[n][1] \notin {"category", "audio"}})

C8_Witness ==
    /\ pc = "question"
    /\ data_file = <<R3, R1>>
    /\ full_doc_list[1].metadata.category = "unknown"
    /\ full_doc_list[1].metadata.audio = ""
    /\ full_doc_list[2].metadata.audio = "a.mp3"
    /\ full_doc_list[2].page_content = "Question: What is water?\nArabic: ma"

\* the documents of the model whose lowercased content contains a safe
\* keyword compared case-insensitively, evaluated once
CaseInsensitiveTopicDocs ==
    {d \in {Document(r) : r \in RawItems} :
        LET text == Lower(d.page_content)
        IN  \E n \in 1..Len(SAFE_KEYWORDS) : Contains(text, Lower(SAFE_KEYWORDS[n]))}

\* C9: filter_documents_by_topic keeps a retrieved document iff its lowercased
\* content contains a safe keyword compared case-insensitively (Islam, Allah,
\* Prophet and Quran included), keeping the order.
C9_FilterCaseInsensitive ==
    "retrieved_docs" \in bound =>
        filter_documents_by_topic(retrieved_docs) =
            SelectIdx(retrieved_docs,
                      {i \in 1..Len(retrieved_docs) :
                          retrieved_docs[i] \in CaseInsensitiveTopicDocs}, 1)

\* C10 as stated: every document passed to the answer generator has lowercased
\* content containing a safe keyword, whether it came from the filtered
\* vector results or from the fallback search.
C10_GeneratorDocsHaveKeyword ==
    Called("llm.invoke") =>
        \A i \in 1..Len(llm_docs) : llm_docs[i] \in CaseInsensitiveTopicDocs

\* C10 as amended: every document passed to the answer generator has
\* lowercased content containing a safe keyword or the normalized question.
C10_GeneratorDocsHaveKeywordOrQuestion ==
    Called("llm.invoke") =>
        \A i \in 1..Len(llm_docs) :
            \/ llm_docs[i] \in CaseInsensitiveTopicDocs
            \/ Contains(Lower(llm_docs[i].page_content), query)

C10_Witness ==
    /\ Called("llm.invoke")
    /\ Called("fallback_keyword_search")
    /\ query = "kind"
    /\ llm_docs = <<Document(R4)>>
    /\ pc = "done"

====
